---- MODULE Spec2Model ----
(***************************************************************************)
(* A model of gdt_helper.py: the compiler-probe line parsers, the option   *)
(* composer, the declaration extractor and the two commands.               *)
(*                                                                         *)
(* Text is a sequence of one-character strings, so that offsets, prefixes, *)
(* splitting and trimming are computed as the Python code computes them.   *)
(***************************************************************************)
EXTENDS Integers, Sequences, FiniteSets, TLC

VARIABLES
    probe_text,           \* probe parsers: the captured compiler output
    probe_ret,            \* probe parsers: the last call and what it returned
    unit,                 \* extract_valid_tokens: its argument
    extracted,            \* extract_valid_tokens: its result
    prev_extracted,       \* the result of the pass before, once it is re-run
    passes,               \* how many times extraction has run
    command,              \* the command invoked
    pc,                   \* the command's position
    compiler_path,        \* argument
    input_exists,         \* whether input_header_path exists
    additional_includes,  \* argument, after the "-I" prefixing
    proc,                 \* the last compiler process: exit status and captured output
    raw_out,              \* make_file_to_parse's local raw_out
    probed,               \* get_parse_options' local compiler_raw_output
    calls,                \* the compiler invocations made so far
    shown,                \* messages handed to show_err / show_warn
    parse_options,        \* make_parse_options' local parse_options
    echoed,               \* what typer.echo printed
    out_file              \* the content of <input_header_path>.out

probe_vars == <<probe_text, probe_ret>>
extract_vars == <<unit, extracted, prev_extracted, passes>>
cmd_vars == <<command, pc, compiler_path, input_exists, additional_includes,
              proc, raw_out, probed, calls, shown, parse_options, echoed, out_file>>
all_vars == <<probe_vars, extract_vars, cmd_vars>>

\* Python's None, and a value that is not None
None == <<>>
Some(v) == <<v>>

----------------------------------------------------------------------------
(* Python str / list built-ins used by the source.                         *)

\* s.startswith(prefix)
StartsWith(s, prefix) ==
    /\ Len(s) >= Len(prefix)
    /\ SubSeq(s, 1, Len(prefix)) = prefix

\* index (1-based) of the first occurrence of character c in s, 0 if none
IndexOf(s, c) ==
    IF \E i \in 1..Len(s) : s[i] = c
    THEN CHOOSE i \in 1..Len(s) : s[i] = c /\ \A j \in 1..(i - 1) : s[j] # c
    ELSE 0

\* s.split(c) for a one-character separator c
RECURSIVE Split(_, _)
Split(s, c) ==
    LET i == IndexOf(s, c) IN
    IF i = 0 THEN <<s>>
    ELSE <<SubSeq(s, 1, i - 1)>> \o Split(SubSeq(s, i + 1, Len(s)), c)

\* c.join(parts)
RECURSIVE Join(_, _)
Join(parts, c) ==
    IF Len(parts) = 0 THEN <<>>
    ELSE IF Len(parts) = 1 THEN parts[1]
    ELSE parts[1] \o <<c>> \o Join(Tail(parts), c)

Whitespace == {" ", "\t", "\r", "\n"}

\* s.strip()
Strip(s) ==
    LET keep == {i \in 1..Len(s) : s[i] \notin Whitespace} IN
    IF keep = {} THEN <<>>
    ELSE SubSeq(s, CHOOSE i \in keep : \A j \in keep : i <= j,
                   CHOOSE i \in keep : \A j \in keep : i >= j)

----------------------------------------------------------------------------
(* CompilerProbe: the parsers of the compiler's diagnostic output.         *)

IncludeStartMarker == <<"#","i","n","c","l","u","d","e"," ","<",".",".",".",">"," ","s","e","a","r","c","h"," ","s","t","a","r","t","s"," ","h","e","r","e",":">>
IncludeEndMarker == <<"E","n","d"," ","o","f"," ","s","e","a","r","c","h"," ","l","i","s","t",".">>
CompilerPathPrefix == <<"C","O","M","P","I","L","E","R","_","P","A","T","H","=">>
DashI == <<"-","I">>
DashD == <<"-","D">>

\* the for loop of get_default_include_paths, from line i on
RECURSIVE IncludeLoop(_, _, _, _)
IncludeLoop(lines, i, include_path_str_starts, default_include_paths) ==
    IF i > Len(lines) THEN default_include_paths
    ELSE IF StartsWith(lines[i], IncludeStartMarker)
         THEN IncludeLoop(lines, i + 1, TRUE, default_include_paths)
    ELSE IF StartsWith(lines[i], IncludeEndMarker)
         THEN default_include_paths
    ELSE IF include_path_str_starts
         THEN IncludeLoop(lines, i + 1, include_path_str_starts,
                          Append(default_include_paths, DashI \o Strip(lines[i])))
    ELSE IncludeLoop(lines, i + 1, include_path_str_starts, default_include_paths)

\* a variant that appends the start-marker line instead of skipping it
get_default_include_paths_keeps_marker(compiler_raw_output) ==
    LET lines == Split(compiler_raw_output, "\n")
        RECURSIVE Loop(_, _, _)
        Loop(i, starts, acc) ==
            IF i > Len(lines) THEN acc
            ELSE IF StartsWith(lines[i], IncludeEndMarker) THEN acc
            ELSE LET now == starts \/ StartsWith(lines[i], IncludeStartMarker) IN
                 Loop(i + 1, now,
                      IF now THEN Append(acc, DashI \o Strip(lines[i])) ELSE acc)
    IN Loop(1, FALSE, <<>>)

get_default_include_paths(compiler_raw_output) ==
    IncludeLoop(Split(compiler_raw_output, "\n"), 1, FALSE, <<>>)

\* the for loop of get_compiler_paths, from line i on
RECURSIVE CompilerPathLoop(_, _)
CompilerPathLoop(lines, i) ==
    IF i > Len(lines) THEN <<>>
    ELSE IF StartsWith(lines[i], CompilerPathPrefix)
         THEN LET parts == Split(lines[i], "=")
                  path_var == parts[Len(parts)]
                  segs == Split(path_var, ":")
              IN [k \in 1..Len(segs) |-> DashI \o segs[k]]
    ELSE CompilerPathLoop(lines, i + 1)

get_compiler_paths(compiler_raw_output) ==
    CompilerPathLoop(Split(compiler_raw_output, "\n"), 1)

\* get_additional_definitions(): the five fixed compatibility macros
get_additional_definitions ==
    << <<"-","D","C","O","N","S","T","=","\"","c","o","n","s","t","\"">>,
       <<"-","D","_","_","r","e","s","t","r","i","c","t","_","_","=","\"","\"">>,
       <<"-","D","_","_","a","l","w","a","y","s","_","i","n","l","i","n","e","_","_","=","\"","i","n","l","i","n","e","\"">>,
       <<"-","D","_","_","g","n","u","_","i","n","l","i","n","e","_","_","=","\"","i","n","l","i","n","e","\"">>,
       <<"-","D","_","_","b","u","i","l","t","i","n","_","v","a","_","l","i","s","t","=","\"","v","o","i","d"," ","*","\"">> >>

HashDefine == <<"#","d","e","f","i","n","e">>
MsgNotDefine == <<"I","t"," ","i","s"," ","n","o","t"," ","#","d","e","f","i","n","e">>
MsgMightFail == <<"I","t"," ","m","i","g","h","t"," ","f","a","i","l"," ","t","o"," ","p","a","r","s","e">>

\* the for loop of get_default_definitions, from line i on.  The result
\* records whether vars[0] raised IndexError, the flags appended so far and
\* the messages handed to show_err.
RECURSIVE DefinitionsLoop(_, _, _, _)
DefinitionsLoop(lines, i, defs, shown_msgs) ==
    IF i > Len(lines)
    THEN [raised |-> FALSE, defs |-> defs, shown |-> shown_msgs]
    ELSE IF lines[i] = <<>>
    THEN DefinitionsLoop(lines, i + 1, defs, shown_msgs)
    ELSE LET parts == Split(lines[i], " ")
             define == parts[1]
             vars == Tail(parts)
             msgs == IF define # HashDefine
                     THEN shown_msgs \o <<MsgNotDefine, lines[i], MsgMightFail>>
                     ELSE shown_msgs
         IN IF Len(vars) = 0
            THEN [raised |-> TRUE, defs |-> defs, shown |-> msgs]
            ELSE DefinitionsLoop(lines, i + 1,
                     Append(defs, DashD \o vars[1] \o <<"=","\"">> \o Join(Tail(vars), " ") \o <<"\"">>),
                     msgs)

\* get_default_definitions, applied to the captured output of `-dM -E`
get_default_definitions(macro_raw_output) ==
    DefinitionsLoop(Split(macro_raw_output, "\n"), 1, <<>>, <<>>)

\* a variant that puts the compatibility macros after the captured macros
get_parse_options_macros_last(compiler_raw_output, macro_raw_output) ==
    LET default_defs == get_default_definitions(macro_raw_output) IN
    [raised |-> default_defs.raised,
     shown |-> default_defs.shown,
     options |-> IF default_defs.raised THEN <<>>
                 ELSE get_default_include_paths(compiler_raw_output)
                      \o get_compiler_paths(compiler_raw_output)
                      \o default_defs.defs \o get_additional_definitions]

\* get_parse_options, applied to the captured outputs of its two compiler runs
get_parse_options(compiler_raw_output, macro_raw_output) ==
    LET default_include_paths == get_default_include_paths(compiler_raw_output)
        compiler_paths == get_compiler_paths(compiler_raw_output)
        defs == get_additional_definitions
        default_defs == get_default_definitions(macro_raw_output)
    IN [raised |-> default_defs.raised,
        shown |-> default_defs.shown,
        options |-> IF default_defs.raised THEN <<>>
                    ELSE default_include_paths \o compiler_paths \o defs
                         \o default_defs.defs]

----------------------------------------------------------------------------
(* Bounded inputs of the probe parsers.                                    *)

MaxDiagLines == 3
MaxMacroLines == 3

DiagLines ==
    { IncludeStartMarker,
      IncludeEndMarker,
      <<" ","/","u">>,
      <<"C","O","M","P","I","L","E","R","_","P","A","T","H","=","/","a",":","/","b">>,
      <<"C","O","M","P","I","L","E","R","_","P","A","T","H","=","a","=","b",":","c">>,
      IncludeEndMarker \o <<"x">>,
      IncludeStartMarker \o <<"x">> }

MacroLines ==
    { <<"#","d","e","f","i","n","e"," ","F","O","O"," ","1">>,
      <<"#","d","e","f","i","n","e"," ","B","A","R">>,
      <<"#","d","e","f","i","n","e"," ","V"," ","a"," ","b">>,
      <<"w","a","r","n","i","n","g",":"," ","x">>,
      <<"g","a","r","b","a","g","e">>,
      <<>> }

\* all sequences over S of length at most n
SeqsUpTo(S, n) == UNION { [1..k -> S] : k \in 0..n }

DiagTexts == { Join(ls, "\n") : ls \in SeqsUpTo(DiagLines, MaxDiagLines) }
MacroTexts == { Join(ls, "\n") : ls \in SeqsUpTo(MacroLines, MaxMacroLines) }

----------------------------------------------------------------------------
(* DeclarationExtractor.  The lexer, the parser and the tree walker are    *)
(* the generated clang_parser package and the ANTLR runtime; they are      *)
(* modelled for the subset of C the inputs below use.  The two listener    *)
(* callbacks and extract_valid_tokens are gdt_helper.py's.                 *)

IdentChars ==
    { "a", "b", "c", "d", "e", "f", "g", "h", "i", "j", "k", "l", "m", "n", "o", "p",
      "q", "r", "s", "t", "u", "v", "w", "x", "y", "z", "A", "B", "C", "D", "E", "F",
      "G", "H", "I", "J", "K", "L", "M", "N", "O", "P", "Q", "R", "S", "T", "U", "V",
      "W", "X", "Y", "Z", "0", "1", "2", "3", "4", "5", "6", "7", "8", "9", "_" }

\* offsets (0-based) of the characters that start a token: a character
\* that is not white space and does not continue an identifier
TokenStarts(text) ==
    { i \in 0..(Len(text) - 1) :
        /\ text[i + 1] \notin Whitespace
        /\ \/ text[i + 1] \notin IdentChars
           \/ i = 0
           \/ text[i] \notin IdentChars }

\* offset (0-based) of the last character of the token starting at i: an
\* identifier or keyword runs as far as identifier characters go, any other
\* token is one character
TokenStop(text, i) ==
    IF text[i + 1] \notin IdentChars THEN i
    ELSE CHOOSE j \in i..(Len(text) - 1) :
             /\ \A k \in i..j : text[k + 1] \in IdentChars
             /\ j + 1 < Len(text) => text[j + 2] \notin IdentChars

\* CLexer: the tokens of the default channel in source order, each with the
\* 0-based offsets of its first and last character; white space is skipped
CLexer(raw_in) ==
    LET starts == TokenStarts(raw_in)
        nth(k) == CHOOSE i \in starts : Cardinality({ j \in starts : j < i }) = k - 1
    IN [k \in 1..Cardinality(starts) |->
           [text |-> SubSeq(raw_in, nth(k) + 1, TokenStop(raw_in, nth(k)) + 1),
            start |-> nth(k), stop |-> TokenStop(raw_in, nth(k))]]

Is(toks, i, c) == i >= 1 /\ i <= Len(toks) /\ toks[i].text = <<c>>

Openers == { <<"(">>, <<"{">>, <<"[">> }
Closers == { <<")">>, <<"}">>, <<"]">> }

\* index of the token closing the bracket opened just before token i
RECURSIVE MatchClose(_, _, _)
MatchClose(toks, i, depth) ==
    IF i >= Len(toks) THEN Len(toks)
    ELSE IF toks[i].text \in Openers THEN MatchClose(toks, i + 1, depth + 1)
    ELSE IF toks[i].text \in Closers
         THEN IF depth = 1 THEN i ELSE MatchClose(toks, i + 1, depth - 1)
    ELSE MatchClose(toks, i + 1, depth)

\* index of the first token from i on, outside all brackets, whose text is
\* in stops; 0 if there is none
RECURSIVE ScanTo(_, _, _, _)
ScanTo(toks, i, depth, stops) ==
    IF i > Len(toks) THEN 0
    ELSE IF depth = 0 /\ toks[i].text \in stops THEN i
    ELSE IF toks[i].text \in Openers THEN ScanTo(toks, i + 1, depth + 1, stops)
    ELSE IF toks[i].text \in Closers
         THEN ScanTo(toks, i + 1, IF depth > 0 THEN depth - 1 ELSE 0, stops)
    ELSE ScanTo(toks, i + 1, depth, stops)

\* the first tokens of declarationSpecifiers in the inputs
DeclarationStart ==
    { <<"i","n","t">>, <<"c","h","a","r">>, <<"v","o","i","d">>, <<"l","o","n","g">>, <<"u","n","s","i","g","n","e","d">>,
      <<"s","t","r","u","c","t">>, <<"u","n","i","o","n">>, <<"e","n","u","m">>, <<"t","y","p","e","d","e","f">>, <<"s","t","a","t","i","c">>, <<"e","x","t","e","r","n">>, <<"c","o","n","s","t">> }

\* CParser: the functionDefinition and declaration contexts of the parse
\* tree of tokens i..end, in pre-order.  top: the tokens are a sequence of
\* externalDeclaration (otherwise of blockItem).  A context carries its
\* start and stop tokens; a functionDefinition also the start token of its
\* compoundStatement.
RECURSIVE Contexts(_, _, _, _)
RECURSIVE NestedContexts(_, _, _)

\* the contexts of the compoundStatements of the statement expressions
\* `( { ... } )` among tokens i..end
NestedContexts(toks, i, end) ==
    IF i >= end THEN <<>>
    ELSE IF Is(toks, i, "(") /\ Is(toks, i + 1, "{")
         THEN LET c == MatchClose(toks, i + 2, 1) IN
              Contexts(toks, i + 2, c - 1, FALSE) \o NestedContexts(toks, c + 1, end)
    ELSE NestedContexts(toks, i + 1, end)

Contexts(toks, i, end, top) ==
    IF i > end THEN <<>>
    ELSE IF Is(toks, i, ";") THEN Contexts(toks, i + 1, end, top)
    ELSE IF ~top /\ Is(toks, i, "{")
         THEN LET c == MatchClose(toks, i + 1, 1) IN
              Contexts(toks, i + 1, c - 1, FALSE) \o Contexts(toks, c + 1, end, top)
    ELSE LET k == ScanTo(toks, i, 0, { <<"{">>, <<";">> })
             semi == ScanTo(toks, i, 0, { <<";">> })
             e == IF semi = 0 \/ semi > end THEN end ELSE semi
         IN IF top /\ k > i /\ Is(toks, k, "{") /\ Is(toks, k - 1, ")")
            THEN \* functionDefinition : declarationSpecifiers declarator compoundStatement
                 LET c == MatchClose(toks, k + 1, 1) IN
                 << [rule |-> "functionDefinition", start |-> toks[i],
                     stop |-> toks[c], compound_stmt |-> toks[k]] >>
                 \o Contexts(toks, k + 1, c - 1, FALSE)
                 \o Contexts(toks, c + 1, end, top)
            ELSE IF top \/ toks[i].text \in DeclarationStart
            THEN \* declaration : declarationSpecifiers initDeclaratorList? ';'
                 << [rule |-> "declaration", start |-> toks[i],
                     stop |-> toks[e], compound_stmt |-> toks[e]] >>
                 \o NestedContexts(toks, i, e)
                 \o Contexts(toks, e + 1, end, top)
            ELSE IF k > i /\ k <= end /\ Is(toks, k, "{")
            THEN \* a statement with a compoundStatement: its head, then the block
                 NestedContexts(toks, i, k - 1) \o Contexts(toks, k, end, top)
            ELSE \* expressionStatement or jumpStatement
                 NestedContexts(toks, i, e) \o Contexts(toks, e + 1, end, top)

\* parser.compilationUnit()
compilationUnit(toks) == Contexts(toks, 1, Len(toks), TRUE)

\* InputStream.getText(start, stop): offsets are 0-based, stop is inclusive
getText(input, start, stop) ==
    LET last == IF stop >= Len(input) THEN Len(input) - 1 ELSE stop IN
    IF start >= Len(input) THEN <<>> ELSE SubSeq(input, start + 1, last + 1)

\* a variant that slices up to and including the opening brace
enterFunctionDefinition_keeps_brace(code_out, input, ctx) ==
    code_out \o getText(input, ctx.start.start, ctx.compound_stmt.start) \o <<";","\n">>

\* GhidraValidTokensExtractor.enterFunctionDefinition
enterFunctionDefinition(code_out, input, ctx) ==
    code_out \o getText(input, ctx.start.start, ctx.compound_stmt.start - 1) \o <<";","\n">>

\* GhidraValidTokensExtractor.enterDeclaration
enterDeclaration(code_out, input, ctx) ==
    code_out \o getText(input, ctx.start.start, ctx.stop.stop) \o <<"\n">>

\* ParseTreeWalker.walk: every context is entered, in pre-order, and the
\* listener's callback for its rule, if any, runs
RECURSIVE walk(_, _, _, _)
walk(code_out, input, ctxs, i) ==
    IF i > Len(ctxs) THEN code_out
    ELSE IF ctxs[i].rule = "functionDefinition"
         THEN walk(enterFunctionDefinition(code_out, input, ctxs[i]), input, ctxs, i + 1)
    ELSE IF ctxs[i].rule = "declaration"
         THEN walk(enterDeclaration(code_out, input, ctxs[i]), input, ctxs, i + 1)
    ELSE walk(code_out, input, ctxs, i + 1)

extract_valid_tokens(raw_in) ==
    walk(<<>>, raw_in, compilationUnit(CLexer(raw_in)), 1)

----------------------------------------------------------------------------
(* Bounded inputs of the extractor.                                        *)

MaxUnits == 2

ExternalDeclarations ==
    { <<"i","n","t"," ","g",";">>,
      <<"i","n","t"," ","f","(","i","n","t"," ","x",")"," ","{"," ","r","e","t","u","r","n"," ","x",";"," ","}">>,
      <<"i","n","t"," ","h","(",")"," ","{"," ","i","n","t"," ","y",";"," ","}">>,
      <<"s","t","r","u","c","t"," ","s"," ","{"," ","i","n","t"," ","a",";"," ","}",";">>,
      <<"i","n","t"," ","k","(",")","{"," ","i","n","t"," ","x"," ","="," ","(","{"," ","i","n","t"," ","y",";"," ","y",";"," ","}",")",";"," ","}">>,
      <<"i","n","t"," ","z"," ","="," ","(","{"," ","i","n","t"," ","y",";"," ","y",";"," ","}",")",";">> }

TranslationUnits ==
    { Join(ds, "\n") : ds \in SeqsUpTo(ExternalDeclarations, MaxUnits) }

----------------------------------------------------------------------------
(* The idle values of the variables a specification does not use.          *)

\* no compiler process has run yet
NoProcess ==
    [argv |-> "none", spawned |-> FALSE, returncode |-> 0,
     stdout |-> <<>>, stderr |-> <<>>]

NoCall == [fn |-> "none", value |-> <<>>]
ProbeIdle == probe_text = <<>> /\ probe_ret = NoCall
EmptyText == <<>>
ExtractIdle ==
    unit = EmptyText /\ extracted = EmptyText /\ prev_extracted = EmptyText /\ passes = 0
CmdIdle ==
    /\ command = "none" /\ pc = "done" /\ compiler_path = EmptyText
    /\ input_exists = FALSE /\ additional_includes = <<>>
    /\ proc = NoProcess /\ raw_out = None /\ probed = EmptyText
    /\ calls = <<>> /\ shown = <<>> /\ parse_options = None
    /\ echoed = <<>> /\ out_file = None

----------------------------------------------------------------------------
(* Calls of the probe parsers on bounded compiler output.                  *)

InitProbe ==
    /\ probe_text \in DiagTexts \cup MacroTexts
    /\ probe_ret = NoCall
    /\ ExtractIdle /\ CmdIdle

CallGetDefaultIncludePaths ==
    /\ probe_ret' = [fn |-> "get_default_include_paths",
                     value |-> get_default_include_paths(probe_text)]
    /\ UNCHANGED <<probe_text, extract_vars, cmd_vars>>

CallGetCompilerPaths ==
    /\ probe_ret' = [fn |-> "get_compiler_paths",
                     value |-> get_compiler_paths(probe_text)]
    /\ UNCHANGED <<probe_text, extract_vars, cmd_vars>>

CallGetDefaultDefinitions ==
    /\ probe_ret' = [fn |-> "get_default_definitions",
                     value |-> get_default_definitions(probe_text)]
    /\ UNCHANGED <<probe_text, extract_vars, cmd_vars>>

NextProbe ==
    \/ CallGetDefaultIncludePaths
    \/ CallGetCompilerPaths
    \/ CallGetDefaultDefinitions

SpecProbe == InitProbe /\ [][NextProbe]_all_vars

----------------------------------------------------------------------------
(* Calls of extract_valid_tokens on bounded translation units, and on its  *)
(* own output.                                                             *)

InitExtract ==
    /\ unit \in TranslationUnits
    /\ extracted = EmptyText /\ prev_extracted = EmptyText /\ passes = 0
    /\ ProbeIdle /\ CmdIdle

CallExtract ==
    /\ passes = 0
    /\ extracted' = extract_valid_tokens(unit)
    /\ passes' = 1
    /\ UNCHANGED <<unit, prev_extracted, probe_vars, cmd_vars>>

CallExtractAgain ==
    /\ passes = 1
    /\ unit' = extracted
    /\ prev_extracted' = extracted
    /\ extracted' = extract_valid_tokens(extracted)
    /\ passes' = 2
    /\ UNCHANGED <<probe_vars, cmd_vars>>

NextExtract ==
    \/ CallExtract
    \/ CallExtractAgain

SpecExtract == InitExtract /\ [][NextExtract]_all_vars

----------------------------------------------------------------------------
(* The two commands.  A compiler run is the point where the environment    *)
(* decides: the run returns, exits non-zero, or cannot be spawned.         *)

\* s contains sub ("sub in s")
Contains(s, sub) ==
    \E i \in 0..(Len(s) - Len(sub)) : SubSeq(s, i + 1, i + Len(sub)) = sub

MingwName == <<"x","8","6","_","6","4","-","w","6","4","-","m","i","n","g","w","3","2","-","g","c","c">>

CompilerPaths == { <<"g","c","c">>, <<"/","o","p","t","/","x","8","6","_","6","4","-","w","6","4","-","m","i","n","g","w","3","2","-","g","c","c">> }
IncludeArguments == { <<>>, << <<"i","n","c">> >> }

\* what the fixture compilers print for `-E -v`
CmdDiagOutputs ==
    { <<"C","O","M","P","I","L","E","R","_","P","A","T","H","=","/","a",":","/","b","\n","#","i","n","c","l","u","d","e"," ","<",".",".",".",">"," ","s","e","a","r","c","h"," ","s","t","a","r","t","s"," ","h","e","r","e",":","\n"," ","/","u","\n"," ","/","v","\n","E","n","d"," ","o","f"," ","s","e","a","r","c","h"," ","l","i","s","t",".","\n">>,
      <<"#","i","n","c","l","u","d","e"," ","<",".",".",".",">"," ","s","e","a","r","c","h"," ","s","t","a","r","t","s"," ","h","e","r","e",":","\n"," ","/","u","\n"," ","/","u","\n","E","n","d"," ","o","f"," ","s","e","a","r","c","h"," ","l","i","s","t",".","\n">>,
      <<"g","c","c"," ","v","e","r","s","i","o","n"," ","1","\n">> }

\* what the fixture compilers print for `-dM -E`
CmdMacroOutputs ==
    { <<"#","d","e","f","i","n","e"," ","F","O","O"," ","1","\n","#","d","e","f","i","n","e"," ","B","A","R","\n">>,
      <<"#","d","e","f","i","n","e"," ","C","O","N","S","T"," ","c","\n">>,
      <<"g","a","r","b","a","g","e","\n">>,
      <<>> }

\* what the fixture compilers print on standard error when they fail
CmdErrors == { <<"f","a","t","a","l"," ","e","r","r","o","r",":"," ","a",".","h">>, <<>> }

\* str(e) of the exceptions subprocess.run and the parsers raise; the
\* message of CalledProcessError names the command and the exit status,
\* not the captured output
StrOfException(e) ==
    CASE e = "CalledProcessError" -> <<"C","o","m","m","a","n","d"," ","r","e","t","u","r","n","e","d"," ","n","o","n","-","z","e","r","o"," ","e","x","i","t"," ","s","t","a","t","u","s"," ","1",".">>
      [] e = "FileNotFoundError" -> <<"N","o"," ","s","u","c","h"," ","f","i","l","e"," ","o","r"," ","d","i","r","e","c","t","o","r","y">>
      [] e = "PermissionError" -> <<"P","e","r","m","i","s","s","i","o","n"," ","d","e","n","i","e","d">>
      [] e = "IndexError" -> <<"l","i","s","t"," ","i","n","d","e","x"," ","o","u","t"," ","o","f"," ","r","a","n","g","e">>

RunOutcomes == { "ok", "CalledProcessError", "FileNotFoundError", "PermissionError" }

show_err(msg) == [level |-> "err", text |-> msg]
show_warn(msg) == [level |-> "warn", text |-> msg]

\* the CompletedProcess of a run, or what the process left behind when
\* subprocess.run raised instead of returning
Process(argv, outcome, out, err) ==
    [argv |-> argv,
     spawned |-> outcome \in {"ok", "CalledProcessError"},
     returncode |-> IF outcome = "ok" THEN 0 ELSE 1,
     stdout |-> IF outcome \in {"ok", "CalledProcessError"} THEN out ELSE <<>>,
     stderr |-> IF outcome \in {"ok", "CalledProcessError"} THEN err ELSE <<>>]

InitCmd ==
    /\ command \in {"make_parse_options", "make_file_to_parse"}
    /\ pc = IF command = "make_file_to_parse" THEN "check_path" ELSE "has_compiler"
    /\ compiler_path \in CompilerPaths
    /\ input_exists \in IF command = "make_file_to_parse" THEN BOOLEAN ELSE {FALSE}
    /\ additional_includes \in
           IF command = "make_file_to_parse" THEN IncludeArguments ELSE {<<>>}
    /\ proc = NoProcess /\ raw_out = None /\ probed = EmptyText
    /\ calls = <<>> /\ shown = <<>> /\ parse_options = None
    /\ echoed = <<>> /\ out_file = None
    /\ ProbeIdle /\ ExtractIdle

\* a variant that goes on to the compiler check when the header is missing
CheckPath_goes_on ==
    /\ pc = "check_path"
    /\ shown' = IF input_exists THEN shown
                ELSE Append(shown, show_err(<<"i","n","p","u","t","_","h","e","a","d","e","r","_","p","a","t","h"," ","d","o","e","s"," ","n","o","t"," ","e","x","i","s","t">>))
    /\ pc' = "has_compiler"
    /\ UNCHANGED <<command, compiler_path, input_exists, additional_includes, proc,
                   raw_out, probed, calls, parse_options, echoed, out_file,
                   probe_vars, extract_vars>>

\* make_file_to_parse: the os.path.exists check
CheckPath ==
    /\ pc = "check_path"
    /\ IF ~input_exists
       THEN /\ shown' = Append(shown, show_err(<<"i","n","p","u","t","_","h","e","a","d","e","r","_","p","a","t","h"," ","d","o","e","s"," ","n","o","t"," ","e","x","i","s","t">>))
            /\ pc' = "done"
       ELSE /\ shown' = shown
            /\ pc' = "has_compiler"
    /\ UNCHANGED <<command, compiler_path, input_exists, additional_includes, proc,
                   raw_out, probed, calls, parse_options, echoed, out_file,
                   probe_vars, extract_vars>>

\* has_compiler, and its caller's return when it answers False
HasCompiler ==
    /\ pc = "has_compiler"
    /\ \E outcome \in RunOutcomes :
        /\ proc' = Process("-v", outcome, <<"g","c","c"," ","v","e","r","s","i","o","n"," ","1">>, <<>>)
        /\ calls' = Append(calls, "-v")
        /\ IF outcome = "ok"
           THEN /\ shown' = shown
                /\ pc' = IF command = "make_parse_options"
                         THEN "probe_includes" ELSE "preprocess"
           ELSE IF outcome = "FileNotFoundError"
           THEN /\ shown' = shown \o << show_err(<<"c","o","m","p","i","l","e","r","_","p","a","t","h"," ","i","s"," ","n","o","t"," ","i","n","s","t","a","l","l","e","d">>),
                                        show_err(<<"P","l","e","a","s","e"," ","i","n","s","t","a","l","l"," ","v","i","a"," ","p","a","c","k","a","g","e"," ","m","a","n","a","g","e","r">>) >>
                /\ pc' = "done"
           ELSE /\ shown' = Append(shown, show_err(<<"U","n","k","n","o","w","n"," ","e","r","r","o","r"," ","(">> \o
                                       StrOfException(outcome) \o <<")">>))
                /\ pc' = "done"
    /\ UNCHANGED <<command, compiler_path, input_exists, additional_includes,
                   raw_out, probed, parse_options, echoed, out_file,
                   probe_vars, extract_vars>>

\* make_parse_options' except clause
CannotMakeParseOptions(e) ==
    << show_err(StrOfException(e)), show_err(<<"C","a","n","n","o","t"," ","m","a","k","e"," ","p","a","r","s","e"," ","o","p","t","i","o","n","s">>) >>

\* get_parse_options: the `-E -v` run
ProbeIncludes ==
    /\ pc = "probe_includes"
    /\ \E outcome \in RunOutcomes, out \in CmdDiagOutputs :
        /\ proc' = Process("-E -v", outcome, out, <<>>)
        /\ calls' = Append(calls, "-E -v")
        /\ IF outcome = "ok"
           THEN /\ probed' = proc'.stdout
                /\ shown' = shown
                /\ pc' = "probe_macros"
           ELSE /\ probed' = probed
                /\ shown' = shown \o CannotMakeParseOptions(outcome)
                /\ pc' = "done"
    /\ UNCHANGED <<command, compiler_path, input_exists, additional_includes,
                   raw_out, parse_options, echoed, out_file,
                   probe_vars, extract_vars>>

\* get_parse_options from the `-dM -E` run on, and the rest of
\* make_parse_options
ProbeMacros ==
    /\ pc = "probe_macros"
    /\ \E outcome \in RunOutcomes, out \in CmdMacroOutputs :
        /\ proc' = Process("-dM -E", outcome, out, <<>>)
        /\ calls' = Append(calls, "-dM -E")
        /\ IF outcome = "ok"
           THEN LET r == get_parse_options(probed, proc'.stdout) IN
                IF r.raised
                THEN /\ shown' = shown \o r.shown \o CannotMakeParseOptions("IndexError")
                     /\ UNCHANGED <<parse_options, echoed>>
                ELSE /\ parse_options' = Some(r.options)
                     /\ shown' = shown \o r.shown \o
                            << show_warn(<<"P","l","e","a","s","e"," ","p","a","s","t"," ","t","h","e"," ","f","o","l","l","o","w","i","n","g"," ","o","u","t","p","u","t"," ","t","o"," ","\"","P","a","r","s","e"," ","O","p","t","i","o","n","s","\"","\n">>) >>
                     /\ echoed' = Append(echoed, Join(r.options, "\n"))
           ELSE /\ shown' = shown \o CannotMakeParseOptions(outcome)
                /\ UNCHANGED <<parse_options, echoed>>
        /\ pc' = "done"
    /\ UNCHANGED <<command, compiler_path, input_exists, additional_includes,
                   raw_out, probed, out_file, probe_vars, extract_vars>>

\* make_file_to_parse: the "-I" prefixing and the preprocessor run, with its
\* except clause.  raw_out is assigned only when subprocess.run returns.
Preprocess ==
    /\ pc = "preprocess"
    /\ additional_includes' =
           [k \in 1..Len(additional_includes) |-> DashI \o additional_includes[k]]
    /\ \E outcome \in RunOutcomes, out \in ExternalDeclarations, err \in CmdErrors :
        /\ proc' = Process("-P -E", outcome, out, err)
        /\ calls' = Append(calls, "-P -E")
        /\ IF outcome = "ok"
           THEN /\ raw_out' = Some(proc')
                /\ shown' = shown
                /\ pc' = "extract"
           ELSE /\ raw_out' = raw_out
                /\ shown' = shown \o << show_err(StrOfException(outcome)) >> \o
                       (IF raw_out' # None
                        THEN << show_err(raw_out'[1].stderr), show_err(raw_out'[1].stdout) >>
                        ELSE <<>>)
                /\ pc' = "done"
    /\ UNCHANGED <<command, compiler_path, input_exists, probed, parse_options,
                   echoed, out_file, probe_vars, extract_vars>>

\* make_file_to_parse from the extraction on: the advisory warnings, the
\* write of the output file and the follow-up instructions
ExtractAndWrite ==
    /\ pc = "extract"
    /\ LET source_to_parse == extract_valid_tokens(raw_out[1].stdout)
           mingw == IF Contains(compiler_path, MingwName)
                    THEN << show_warn(<<"P","o","s","t"," ","p","r","o","c","e","s","s","i","n","g"," ","f","o","r"," ","m","i","n","g","w","6","4">>),
                            show_warn(<<"Y","o","u"," ","m","i","g","h","t"," ","e","n","c","o","u","n","t","e","r"," ","G","h","i","d","r","a"," ","p","a","r","s","e"," ","e","r","r","o","r","s"," ","f","o","r"," ","t","h","i","s"," ","f","i","l","e",".">>),
                            show_warn(<<"I","f"," ","s","o",","," ","p","l","e","a","s","e"," ","r","e","m","o","v","e"," ","s","o","m","e"," ","f","u","n","c","t","i","o","n","s">>) >>
                    ELSE <<>>
           more == IF additional_includes # <<>>
                   THEN << show_warn(<<"Y","o","u"," ","a","l","s","o"," ","h","a","v","e"," ","s","p","e","c","i","f","i","e","d"," ","a","d","d","i","t","i","o","n","a","l"," ","i","n","c","l","u","d","e","s"," ","a","s"," ","a","r","g","u","m","e","n","t","s">>),
                           show_warn(<<"S","o",","," ","p","l","e","a","s","e"," ","a","d","d"," ","t","h","e"," ","f","o","l","l","o","w","i","n","g"," ","h","e","a","d","e","r"," ","i","n","c","l","u","d","e","s"," ","t","o"," ","\"","P","a","r","s","e"," ","c","o","n","f","i","g","u","r","a","t","i","o","n","\"">>) >>
                   ELSE <<>>
       IN /\ out_file' = Some(source_to_parse)
          /\ shown' = shown \o mingw
                      \o << show_warn(<<"P","l","e","a","s","e"," ","a","d","d"," ","o","u","t","p","u","t","_","h","e","a","d","e","r","_","p","a","t","h"," ","t","o"," ","\"","S","o","u","r","c","e"," ","f","i","l","e","s"," ","t","o"," ","p","a","r","s","e","\"","\n">>) >>
                      \o more
          /\ echoed' = IF additional_includes # <<>>
                       THEN Append(echoed, Join(additional_includes, "\n")) ELSE echoed
    /\ pc' = "done"
    /\ UNCHANGED <<command, compiler_path, input_exists, additional_includes, proc,
                   raw_out, probed, calls, parse_options, probe_vars, extract_vars>>

NextCmd ==
    \/ CheckPath
    \/ HasCompiler
    \/ ProbeIncludes
    \/ ProbeMacros
    \/ Preprocess
    \/ ExtractAndWrite

SpecCmd == InitCmd /\ [][NextCmd]_all_vars

----------------------------------------------------------------------------
(* Properties of the extractor, under SpecExtract.                         *)

ExampleFunction == <<"i","n","t"," ","f","(","i","n","t"," ","x",")"," ","{"," ","r","e","t","u","r","n"," ","x",";"," ","}">>

\* the inputs that consist of one function definition: the text before the
\* first opening brace ends with the ")" of a parameter list
FunctionDefinitionUnits ==
    { d \in ExternalDeclarations :
        LET sig == Strip(SubSeq(d, 1, IndexOf(d, "{") - 1)) IN
        sig # <<>> /\ sig[Len(sig)] = ")" }

InsideBody(c, f) ==
    /\ f.rule = "functionDefinition"
    /\ f.compound_stmt.start < c.start.start
    /\ c.stop.stop < f.stop.stop

\* c lies inside the context d
Inside(c, d) ==
    /\ d.start.start <= c.start.start
    /\ c.stop.stop <= d.stop.stop
    /\ c # d

\* the contexts of ctxs that satisfy Keep(c, ctxs), in order
RECURSIVE Filter(_, _, _, _)
Filter(ctxs, i, Keep(_, _), acc) ==
    IF i > Len(ctxs) THEN acc
    ELSE Filter(ctxs, i + 1, Keep,
                IF Keep(ctxs[i], ctxs) THEN Append(acc, ctxs[i]) ELSE acc)

OutsideBodies(c, ctxs) == \A k \in 1..Len(ctxs) : ~InsideBody(c, ctxs[k])
TopLevel(c, ctxs) == \A k \in 1..Len(ctxs) : ~Inside(c, ctxs[k])

\* C2: nothing inside a function body is visited or emitted: the output is
\* made of one fragment per function definition (its signature) and one per
\* declaration outside the function bodies, and of nothing else.
C2_BodiesNeverVisited ==
    passes = 1 =>
        LET ctxs == compilationUnit(CLexer(unit)) IN
        extracted = walk(<<>>, unit, Filter(ctxs, 1, OutsideBodies, <<>>), 1)

\* C3: extraction is idempotent: run on its own output, it returns that
\* output unchanged.
C3_Idempotent ==
    passes = 2 => extracted = prev_extracted

\* the text of context c followed by a newline
RECURSIVE DeclarationLines(_, _, _)
DeclarationLines(input, ctxs, i) ==
    IF i > Len(ctxs) THEN <<>>
    ELSE getText(input, ctxs[i].start.start, ctxs[i].stop.stop) \o <<"\n">>
         \o DeclarationLines(input, ctxs, i + 1)

\* C9: for a translation unit of non-function top-level declarations only,
\* the result is, for each of them in source order, its text from its first
\* to its last token, unchanged, followed by one newline.
C9_DeclarationsVerbatim ==
    passes = 1 =>
        LET ctxs == compilationUnit(CLexer(unit))
            top == Filter(ctxs, 1, TopLevel, <<>>)
        IN (\A k \in 1..Len(top) : top[k].rule = "declaration") =>
               extracted = DeclarationLines(unit, top, 1)

----------------------------------------------------------------------------
(* Properties of the probe parsers, under SpecProbe.                       *)

\* the indices of the lines of ls that satisfy P
Indices(ls, P(_)) == { i \in 1..Len(ls) : P(ls[i]) }
Min(S) == CHOOSE i \in S : \A j \in S : i <= j

\* the elements of the sequence s at the indices in I, in order
RECURSIVE Pick(_, _, _)
Pick(s, I, i) ==
    IF i > Len(s) THEN <<>>
    ELSE (IF i \in I THEN <<s[i]>> ELSE <<>>) \o Pick(s, I, i + 1)

IncludeFlags(ls) == [k \in 1..Len(ls) |-> DashI \o Strip(ls[k])]

C10_ValueAfterPrefix ==
    probe_ret.fn = "get_compiler_paths" =>
        LET ls == Split(probe_text, "\n")
            IsPath(l) == StartsWith(l, CompilerPathPrefix)
            paths == Indices(ls, IsPath)
            line == ls[Min(paths)]
            segs == Split(SubSeq(line, Len(CompilerPathPrefix) + 1, Len(line)), ":")
        IN probe_ret.value =
               IF paths = {} THEN <<>> ELSE [k \in 1..Len(segs) |-> DashI \o segs[k]]

\* C5: macro extraction never aborts: it returns one -D flag per non-empty
\* line, in line order, name the second space-separated token and value
\* the remaining tokens joined by single spaces, in double quotes; a line
\* that does not start with #define only adds a warning.
C5_TolerantAndComplete ==
    probe_ret.fn = "get_default_definitions" =>
        LET ls == Split(probe_text, "\n")
            NonEmpty(l) == l # <<>>
            lines == Pick(ls, Indices(ls, NonEmpty), 1)
            r == probe_ret.value
        IN /\ ~r.raised
           /\ Len(r.defs) = Len(lines)
           /\ \A k \in 1..Len(lines) :
                  LET toks == Split(lines[k], " ") IN
                  Len(toks) >= 2 =>
                      r.defs[k] = DashD \o toks[2] \o <<"=","\"">>
                                  \o Join(SubSeq(toks, 3, Len(toks)), " ") \o <<"\"">>
           /\ probe_text = <<"#","d","e","f","i","n","e"," ","F","O","O"," ","1","\n","#","d","e","f","i","n","e"," ","B","A","R","\n">> =>
                  r.defs = << <<"-","D","F","O","O","=","\"","1","\"">>, <<"-","D","B","A","R","=","\"","\"">> >>

----------------------------------------------------------------------------
(* Properties of the commands, under SpecCmd.                              *)

\* C4: when the preprocessor run exits non-zero or cannot be spawned, what
\* the compiler printed on standard error and standard output is shown
\* before the command ends, and no output file is written.
C4_CapturedOutputShown ==
    (/\ command = "make_file_to_parse" /\ pc = "done"
     /\ proc.argv = "-P -E" /\ (proc.returncode # 0 \/ ~proc.spawned)) =>
        /\ out_file = None
        /\ proc.spawned =>
               /\ \E k \in 1..Len(shown) : shown[k] = show_err(proc.stderr)
               /\ \E k \in 1..Len(shown) : shown[k] = show_err(proc.stdout)

\* C6: for a header path that does not exist, make_file_to_parse runs no
\* compiler at all and writes no output file; the path check comes before
\* every compiler run and every write.
C6_PathCheckFirst ==
    command = "make_file_to_parse" =>
        /\ pc = "check_path" => calls = <<>> /\ out_file = None
        /\ ~input_exists => /\ calls = <<>>
                            /\ out_file = None
                            /\ pc \in {"check_path", "done"}

C6_Witness ==
    /\ command = "make_file_to_parse"
    /\ ~input_exists
    /\ pc = "done"
    /\ Len(shown) = 1

CompatibilityNames ==
    << <<"C","O","N","S","T">>, <<"_","_","r","e","s","t","r","i","c","t","_","_">>, <<"_","_","a","l","w","a","y","s","_","i","n","l","i","n","e","_","_">>, <<"_","_","g","n","u","_","i","n","l","i","n","e","_","_">>,
       <<"_","_","b","u","i","l","t","i","n","_","v","a","_","l","i","s","t">> >>

\* C8: the parse options are the system include flags, then the
\* compiler-internal include flags, then the five compatibility macros
\* CONST, __restrict__, __always_inline__, __gnu_inline__ and
\* __builtin_va_list, then the captured predefined macros: each group whole
\* and in its own order.
C8_GroupsInOrder ==
    (command = "make_parse_options" /\ parse_options # None) =>
        LET options == parse_options[1] IN
        LET inc == get_default_include_paths(probed)
            cp == get_compiler_paths(probed)
            macros == get_default_definitions(proc.stdout).defs
            n1 == Len(inc)
            n2 == Len(cp)
        IN /\ Len(options) = n1 + n2 + 5 + Len(macros)
           /\ SubSeq(options, 1, n1) = inc
           /\ SubSeq(options, n1 + 1, n1 + n2) = cp
           /\ \A k \in 1..5 :
                  StartsWith(options[n1 + n2 + k],
                             DashD \o CompatibilityNames[k] \o <<"=">>)
           /\ SubSeq(options, n1 + n2 + 1, n1 + n2 + 5) = get_additional_definitions
           /\ SubSeq(options, n1 + n2 + 6, Len(options)) = macros
           /\ echoed = << Join(options, "\n") >>

C8_Witness ==
    /\ command = "make_parse_options"
    /\ parse_options # None
    /\ Len(get_default_include_paths(probed)) = 2
    /\ Len(get_compiler_paths(probed)) = 2
    /\ Len(parse_options[1]) = 11

====
